---- MODULE Spec2Model ----
(***************************************************************************)
(* Model of `prisma version` (packages/cli/src/Version.ts): argument       *)
(* handling, engine resolution and probing, preview-feature extraction,    *)
(* row assembly and rendering.                                             *)
(*                                                                         *)
(* Strings are sequences of one-character strings, so that length,        *)
(* padding, lower-casing and regular-expression replacement are computed.  *)
(***************************************************************************)
EXTENDS Integers, Sequences, FiniteSets, TLC

\* ------------------------------------------------------------------ bounds

\* Largest number of generator blocks in a parsed schema config.
MaxGenerators == 2

\* Largest number of rows handed to printTable in the table specification.
MaxRows == 3

\* ---------------------------------------------------------- string helpers

UpperCaseLetters == <<"A", "B", "C", "D", "E", "F", "G", "H", "I", "J", "K", "L", "M", "N", "O",
    "P", "Q", "R", "S", "T", "U", "V", "W", "X", "Y", "Z">>

LowerCaseLetters == <<"a", "b", "c", "d", "e", "f", "g", "h", "i", "j", "k", "l", "m", "n", "o",
    "p", "q", "r", "s", "t", "u", "v", "w", "x", "y", "z">>

\* The characters the regular expression class \s matches (those modelled).
Whitespace == {" ", "\t", "\n"}

ToRange(s) == {s[i] : i \in DOMAIN s}

\* The lower-case letter of each capital.
LowerOf ==
    [c \in ToRange(UpperCaseLetters) |->
        LowerCaseLetters[CHOOSE i \in DOMAIN UpperCaseLetters : UpperCaseLetters[i] = c]]

\* String.prototype.toLowerCase, one character.
LowerChar(c) == IF c \in DOMAIN LowerOf THEN LowerOf[c] ELSE c

\* String.prototype.toLowerCase.
ToLowerCase(s) == [i \in DOMAIN s |-> LowerChar(s[i])]

RECURSIVE DropWhitespace(_)
\* The rest of the string after the whitespace run at its start.
DropWhitespace(s) ==
    IF s # <<>> /\ Head(s) \in Whitespace THEN DropWhitespace(Tail(s)) ELSE s

RECURSIVE ReplaceWhitespacePerChar(_)
\* A faulty replacement: one hyphen per whitespace character (/\s/g).
ReplaceWhitespacePerChar(s) ==
    IF s = <<>> THEN <<>>
    ELSE IF Head(s) \in Whitespace
         THEN <<"-">> \o ReplaceWhitespacePerChar(Tail(s))
         ELSE <<Head(s)>> \o ReplaceWhitespacePerChar(Tail(s))

RECURSIVE ReplaceWhitespaceRuns(_)
\* str.replace(/\s+/g, '-'): every maximal whitespace run becomes one hyphen.
ReplaceWhitespaceRuns(s) ==
    IF s = <<>> THEN <<>>
    ELSE IF Head(s) \in Whitespace
         THEN <<"-">> \o ReplaceWhitespaceRuns(DropWhitespace(Tail(s)))
         ELSE <<Head(s)>> \o ReplaceWhitespaceRuns(Tail(s))

\* A faulty slugify that replaces each whitespace character on its own.
SlugifyPerChar(str) == ReplaceWhitespacePerChar(ToLowerCase(str))

\* slugify(str): lower-case, then whitespace runs to single hyphens.
slugify(str) == ReplaceWhitespaceRuns(ToLowerCase(str))

\* String.prototype.padEnd with the default pad character.
PadEnd(s, n) == IF Len(s) >= n THEN s ELSE s \o [i \in 1..(n - Len(s)) |-> " "]

Max(a, b) == IF a >= b THEN a ELSE b

RECURSIVE Join(_, _)
\* Array.prototype.join.
Join(parts, sep) ==
    IF parts = <<>> THEN <<>>
    ELSE IF Len(parts) = 1 THEN parts[1]
    ELSE parts[1] \o sep \o Join(Tail(parts), sep)

RECURSIVE LastSegment(_, _)
\* str.split(sep).pop() for a one-character separator.
LastSegment(s, sep) ==
    IF \E i \in DOMAIN s : s[i] = sep
    THEN LastSegment(SubSeq(s, (CHOOSE i \in DOMAIN s : s[i] = sep) + 1, Len(s)), sep)
    ELSE s

\* ------------------------------------------------------------- printTable

RECURSIVE MaxPadFrom(_, _)
\* rows.reduce((acc, curr) => Math.max(acc, curr[0].length), 0)
MaxPadFrom(rows, acc) ==
    IF rows = <<>> THEN acc ELSE MaxPadFrom(Tail(rows), Max(acc, Len(rows[1][1])))

\* A faulty width: the first label's length instead of the longest.
MaxPadFirst(rows) == IF rows = <<>> THEN 0 ELSE Len(rows[1][1])

MaxPad(rows) == MaxPadFrom(rows, 0)

\* `${left.padEnd(maxPad)} : ${right}`
TextLine(row, maxPad) == PadEnd(row[1], maxPad) \o <<" ", ":", " ">> \o row[2]

\* The text table: one line per row, joined by newlines.
TextTable(rows) ==
    LET maxPad == MaxPad(rows)
    IN  Join([i \in DOMAIN rows |-> TextLine(rows[i], maxPad)], <<"\n">>)

\* acc[key] = value on an object held as a set of <<key, value>> pairs.
SetKey(acc, key, value) == {p \in acc : p[1] # key} \cup {<<key, value>>}

RECURSIVE JsonFrom(_, _)
\* rows.reduce((acc, [name, value]) => { acc[slugify(name)] = value; ... }, {})
JsonFrom(rows, acc) ==
    IF rows = <<>> THEN acc
    ELSE JsonFrom(Tail(rows), SetKey(acc, slugify(rows[1][1]), rows[1][2]))

\* The object JSON.stringify serialises, as its set of key/value pairs.
JsonObject(rows) == JsonFrom(rows, {})

\* The value parse returns: what kind it is, its text, and (JSON) its object.
Returned(kind, text, obj) == [kind |-> kind, text |-> text, obj |-> obj]

NoResult == Returned("none", <<>>, {})

\* A rejected promise: the error propagated out of parse.
Thrown == Returned("thrown", <<>>, {})

\* printTable(rows, json)
printTable(rows, json) ==
    IF json THEN Returned("json", <<>>, JsonObject(rows))
    ELSE Returned("text", TextTable(rows), {})

\* ------------------------------------------------------ program constants

\* packageJson.name
PackageName == <<"p", "r", "i", "s", "m", "a">>

\* packageJson.version
PackageVersion == <<"0", ".", "0", ".", "0">>

\* packageJson.devDependencies['@prisma/studio-server']
StudioServerVersion == <<"0", ".", "4", "6", "0", ".", "0">>

\* packageJson.dependencies['@prisma/engines']
EnginesDependency == <<"3", ".", "1", "5", ".", "0", "-", "1", "1", ".", "1", "c", "0", "5",
    "d", "2", "f", "d", "0", "2", "9", "8", "1", "d", "0", "4", "d", "5", "3", "6", "7", "3",
    "1", "9", "e", "8", "2", "f", "4", "4", "e", "1", "c", "4", "4", "e", "c", "0", "b", "7">>

\* Version.help: the usage text (styling left out).
HelpText ==
    <<"\n", "P", "r", "i", "n", "t", " ", "c", "u", "r", "r", "e", "n", "t", " ", "v", "e", "r",
        "s", "i", "o", "n", " ", "o", "f", " ", "P", "r", "i", "s", "m", "a", " ", "c", "o",
        "m", "p", "o", "n", "e", "n", "t", "s", "\n", "\n", "U", "s", "a", "g", "e", "\n",
        "\n">>
    \o <<" ", " ", "$", " ", "p", "r", "i", "s", "m", "a", " ", "-", "v", " ", "[", "o", "p",
        "t", "i", "o", "n", "s", "]", "\n", " ", " ", "$", " ", "p", "r", "i", "s", "m", "a",
        " ", "v", "e", "r", "s", "i", "o", "n", " ", "[", "o", "p", "t", "i", "o", "n", "s",
        "]", "\n", "\n", "O", "p", "t", "i", "o", "n", "s", "\n", "\n">>
    \o <<" ", " ", "-", "h", ",", " ", "-", "-", "h", "e", "l", "p", " ", " ", " ", " ", " ",
        "D", "i", "s", "p", "l", "a", "y", " ", "t", "h", "i", "s", " ", "h", "e", "l", "p",
        " ", "m", "e", "s", "s", "a", "g", "e", "\n">>
    \o <<" ", " ", " ", " ", " ", " ", "-", "-", "j", "s", "o", "n", " ", " ", " ", " ", " ",
        "O", "u", "t", "p", "u", "t", " ", "J", "S", "O", "N", "\n">>

\* The engine kinds (EngineType).
EngineTypes ==
    {"libqueryEngine", "queryEngine", "migrationEngine", "introspectionEngine", "prismaFmt"}

\* The two kinds getCliQueryEngineType can return.
QueryEngineTypes == {"libqueryEngine", "queryEngine"}

\* engineEnvVarMap: the override variable of each engine kind.
engineEnvVarMap(engineType) ==
    CASE engineType = "libqueryEngine" -> <<"P", "R", "I", "S", "M", "A", "_", "Q", "U", "E",
        "R", "Y", "_", "E", "N", "G", "I", "N", "E", "_", "L", "I", "B", "R", "A", "R", "Y">>
      [] engineType = "queryEngine" -> <<"P", "R", "I", "S", "M", "A", "_", "Q", "U", "E", "R",
          "Y", "_", "E", "N", "G", "I", "N", "E", "_", "B", "I", "N", "A", "R", "Y">>
      [] engineType = "migrationEngine" -> <<"P", "R", "I", "S", "M", "A", "_", "M", "I", "G",
          "R", "A", "T", "I", "O", "N", "_", "E", "N", "G", "I", "N", "E", "_", "B", "I", "N",
          "A", "R", "Y">>
      [] engineType = "introspectionEngine" -> <<"P", "R", "I", "S", "M", "A", "_", "I", "N",
          "T", "R", "O", "S", "P", "E", "C", "T", "I", "O", "N", "_", "E", "N", "G", "I", "N",
          "E", "_", "B", "I", "N", "A", "R", "Y">>
      [] OTHER -> <<"P", "R", "I", "S", "M", "A", "_", "F", "M", "T", "_", "B", "I", "N", "A",
          "R", "Y">>

\* process.cwd()
Cwd == <<"/", "w">>

\* What resolveEnginePath returns for each engine kind when it succeeds.
DefaultEnginePath(engineType) ==
    CASE engineType = "libqueryEngine" -> <<"/", "w", "/", "n", "/", "l", "i", "b", "q", "u",
        "e", "r", "y", ".", "s", "o">>
      [] engineType = "queryEngine" -> <<"/", "w", "/", "n", "/", "q", "u", "e", "r", "y">>
      [] engineType = "migrationEngine" -> <<"/", "w", "/", "n", "/", "m", "i", "g", "r", "a",
          "t", "i", "o", "n">>
      [] engineType = "introspectionEngine" -> <<"/", "w", "/", "n", "/", "i", "n", "t", "r",
          "o", "s", "p", "e", "c", "t", "i", "o", "n">>
      [] OTHER -> <<"/", "w", "/", "n", "/", "f", "m", "t">>

\* A path an override variable may hold that exists on disk.
ExistingPath == <<"/", "w", "/", "b", "i", "n", "/", "e", "n", "g", "i", "n", "e">>

\* A path an override variable may hold that does not exist.
MissingPath == <<"/", "w", "/", "g", "o", "n", "e">>

\* fs.existsSync: the files on disk.
Disk == {ExistingPath} \cup {DefaultEnginePath(e) : e \in EngineTypes}

\* What getVersion returns when the probe succeeds.
EngineVersion == <<"3", ".", "1", "5", ".", "0">>

\* path.relative(from, to) for a path below `from`: the part after `from/`.
\* Every path of the model lies below Cwd.
Relative(from, to) ==
    IF Len(to) > Len(from) + 1 /\ SubSeq(to, 1, Len(from) + 1) = from \o <<"/">>
    THEN SubSeq(to, Len(from) + 2, Len(to))
    ELSE to

\* process.env[name]: undefined, or a string (possibly empty).
Undefined == [set |-> FALSE, val |-> <<>>]

Defined(s) == [set |-> TRUE, val |-> s]

EnvValues == {Undefined, Defined(<<>>), Defined(ExistingPath), Defined(MissingPath)}

\* The four engines parse looks up, in the order it awaits them.
EngineOrder(cliQueryEngineType) ==
    <<cliQueryEngineType, "migrationEngine", "introspectionEngine", "prismaFmt">>

EngineCount == 4

\* An EngineInfo; fromEnvVar is the empty string when the field is absent.
EngineInfo(version, path, fromEnvVar) ==
    [resolved |-> TRUE, version |-> version, path |-> path, fromEnvVar |-> fromEnvVar]

\* An engine not looked up yet.
NoEngineInfo ==
    [resolved |-> FALSE, version |-> <<>>, path |-> <<>>, fromEnvVar |-> <<>>]

\* A faulty override test that skips fs.existsSync.
UseOverrideNoExists(pathFromEnv) == pathFromEnv.set /\ pathFromEnv.val # <<>>

\* pathFromEnv && fs.existsSync(pathFromEnv)
UseOverride(pathFromEnv) ==
    pathFromEnv.set /\ pathFromEnv.val # <<>> /\ pathFromEnv.val \in Disk

\* constructEngineInfoString
constructEngineInfoString(info) ==
    LET resolved == IF info.fromEnvVar # <<>>
                    THEN <<",", " ", "r", "e", "s", "o", "l", "v", "e", "d", " ", "b", "y",
                        " ">> \o info.fromEnvVar
                    ELSE <<>>
    IN  info.version \o <<" ", "(", "a", "t", " ">> \o Relative(Cwd,
        info.path) \o resolved \o <<")">>

\* The command-line tokens considered; "--bogus" stands for any option the
\* argument specification does not declare. The declared options parse never
\* reads (--version, -v, --telemetry-information) are left out.
ArgTokens == {"--help", "-h", "--json", "--bogus"}

\* The message of the error arg returns for an undeclared option.
ArgErrorMessage == <<"u", "n", "k", "n", "o", "w", "n", " ", "o", "r", " ", "u", "n", "e", "x",
    "p", "e", "c", "t", "e", "d", " ", "o", "p", "t", "i", "o", "n", ":", " ", "-", "-", "b",
    "o", "g", "u", "s">>

\* arg(argv, spec): an error for an undeclared option, else the parsed flags
\* ('-h' is an alias of '--help').
Arg(tokens) ==
    IF "--bogus" \in tokens
    THEN [isError |-> TRUE, message |-> ArgErrorMessage, help |-> FALSE, json |-> FALSE]
    ELSE [isError |-> FALSE, message |-> <<>>,
          help |-> ("--help" \in tokens \/ "-h" \in tokens),
          json |-> ("--json" \in tokens)]

\* A faulty help that drops the error and returns the plain usage text.
HelpIgnoringError(error) == Returned("help", HelpText, {})

\* help(error): a HelpError carrying the message and the usage text, or the
\* usage text alone.
help(error) ==
    IF error # <<>>
    THEN Returned("helpError", <<"\n", "!", " ">> \o error \o <<"\n">> \o HelpText, {})
    ELSE Returned("help", HelpText, {})

\* The preview-feature names a generator may declare.
FeatureLists == {<<>>, <<<<"b">>>>, <<<<"a">>, <<"b">>>>}

\* config.generators: each generator reduced to its previewFeatures.
GeneratorLists == UNION {[1..n -> FeatureLists] : n \in 0..MaxGenerators}

\* A faulty find that returns the last generator with preview features.
FindLastGenerator(generators) ==
    LET hits == {i \in DOMAIN generators : Len(generators[i]) > 0}
    IN  IF hits = {} THEN <<>>
        ELSE generators[CHOOSE i \in hits : \A j \in hits : j <= i]

\* config.generators.find((g) => g.previewFeatures.length > 0), as the
\* previewFeatures of the generator found (empty when none is).
FindGenerator(generators) ==
    LET hits == {i \in DOMAIN generators : Len(generators[i]) > 0}
    IN  IF hits = {} THEN <<>>
        ELSE generators[CHOOSE i \in hits : \A j \in hits : i <= j]

\* The label of the query-engine row.
QueryEngineLabel(cliQueryEngineType) ==
    <<"Q", "u", "e", "r", "y", " ", "E", "n", "g", "i", "n", "e">>
    \o (IF cliQueryEngineType = "libqueryEngine" THEN <<" ", "(", "N", "o", "d", "e", "-", "A",
        "P", "I", ")">> ELSE <<" ", "(", "B", "i", "n", "a", "r", "y", ")">>)

\* prismaClientVersion ?? 'Not found'
ClientVersionOrNotFound(v) == IF v.set THEN v.val ELSE <<"N", "o", "t", " ", "f", "o", "u", "n",
    "d">>

\* A faulty row list with the migration and introspection rows exchanged.
VersionInfoRowsSwapped(cliQueryEngineType, prismaClientVersion, plat, infos) ==
    << <<PackageName, PackageVersion>>,
       <<<<"@", "p", "r", "i", "s", "m", "a", "/", "c", "l", "i", "e", "n", "t">>,
           ClientVersionOrNotFound(prismaClientVersion)>>,
       <<<<"C", "u", "r", "r", "e", "n", "t", " ", "p", "l", "a", "t", "f", "o", "r", "m">>, plat>>,
       <<QueryEngineLabel(cliQueryEngineType), constructEngineInfoString(infos[1])>>,
       <<<<"I", "n", "t", "r", "o", "s", "p", "e", "c", "t", "i", "o", "n", " ", "E", "n", "g",
           "i", "n", "e">>, constructEngineInfoString(infos[3])>>,
       <<<<"M", "i", "g", "r", "a", "t", "i", "o", "n", " ", "E", "n", "g", "i", "n", "e">>,
           constructEngineInfoString(infos[2])>>,
       <<<<"F", "o", "r", "m", "a", "t", " ", "E", "n", "g", "i", "n", "e">>,
           constructEngineInfoString(infos[4])>>,
       <<<<"S", "t", "u", "d", "i", "o">>, StudioServerVersion>>,
       <<<<"D", "e", "f", "a", "u", "l", "t", " ", "E", "n", "g", "i", "n", "e", "s", " ", "H",
           "a", "s", "h">>, LastSegment(EnginesDependency, ".")>> >>

\* versionInfoRows as first built.
VersionInfoRows(cliQueryEngineType, prismaClientVersion, plat, infos) ==
    << <<PackageName, PackageVersion>>,
       <<<<"@", "p", "r", "i", "s", "m", "a", "/", "c", "l", "i", "e", "n", "t">>,
           ClientVersionOrNotFound(prismaClientVersion)>>,
       <<<<"C", "u", "r", "r", "e", "n", "t", " ", "p", "l", "a", "t", "f", "o", "r", "m">>, plat>>,
       <<QueryEngineLabel(cliQueryEngineType), constructEngineInfoString(infos[1])>>,
       <<<<"M", "i", "g", "r", "a", "t", "i", "o", "n", " ", "E", "n", "g", "i", "n", "e">>,
           constructEngineInfoString(infos[2])>>,
       <<<<"I", "n", "t", "r", "o", "s", "p", "e", "c", "t", "i", "o", "n", " ", "E", "n", "g",
           "i", "n", "e">>, constructEngineInfoString(infos[3])>>,
       <<<<"F", "o", "r", "m", "a", "t", " ", "E", "n", "g", "i", "n", "e">>,
           constructEngineInfoString(infos[4])>>,
       <<<<"S", "t", "u", "d", "i", "o">>, StudioServerVersion>>,
       <<<<"D", "e", "f", "a", "u", "l", "t", " ", "E", "n", "g", "i", "n", "e", "s", " ", "H",
           "a", "s", "h">>, LastSegment(EnginesDependency, ".")>> >>

\* The rows after the optional push of the Preview Features row.
WithPreviewFeatures(baseRows, flags) ==
    IF Len(flags) > 0
    THEN Append(baseRows, <<<<"P", "r", "e", "v", "i", "e", "w", " ", "F", "e", "a", "t", "u",
        "r", "e", "s">>, Join(flags, <<",", " ">>)>>)
    ELSE baseRows

\* ------------------------------------------------------------------ state

VARIABLES
    argv,                 \* the arguments given to parse
    cliQueryEngineType,   \* what getCliQueryEngineType returns
    env,                  \* process.env: each engine kind's override variable
    pc,                   \* where parse (or printTable alone) stands
    envLoaded,            \* loadEnvFile has run
    prismaClientVersion,  \* getInstalledPrismaClientVersion's result
    platform,             \* getPlatform's result
    next,                 \* index in EngineOrder of the engine looked up next
    engines,              \* the EngineInfo of each of the four engines
    resolveCalls,         \* calls of resolveEnginePath, per engine
    probeCalls,           \* calls of getVersion, per engine
    failedEngine,         \* index of the engine whose lookup threw, or 0
    schemaPath,           \* getSchemaPath's result ("" for null)
    config,               \* the outcome of getSchema and getConfig
    featureFlags,         \* getFeatureFlags' result
    rows,                 \* versionInfoRows
    result                \* what parse returned

vars ==
    <<argv, cliQueryEngineType, env, pc, envLoaded, prismaClientVersion, platform, next,
      engines, resolveCalls, probeCalls, failedEngine, schemaPath, config, featureFlags,
      rows, result>>

\* The schema was not read.
NotRead == [read |-> FALSE, failed |-> FALSE, generators |-> <<>>]

\* getSchema or getConfig threw.
ReadFailed == [read |-> TRUE, failed |-> TRUE, generators |-> <<>>]

\* getConfig returned a config with these generators.
ReadConfig(generators) == [read |-> TRUE, failed |-> FALSE, generators |-> generators]

\* The platform getPlatform reports.
Platforms == {<<"d", "a", "r", "w", "i", "n">>}

\* What getInstalledPrismaClientVersion resolves to: null or a version.
ClientVersions == {Undefined, Defined(<<"3", ".", "1", "5", ".", "0">>)}

\* What getSchemaPath resolves to: null or a path.
SchemaPaths == {<<>>, <<"/", "w", "/", "s", "c", "h", "e", "m", "a", ".", "p", "r", "i", "s",
    "m", "a">>}

Engines == 1..EngineCount

\* The state before anything ran, apart from the inputs.
Fresh ==
    /\ envLoaded = FALSE
    /\ prismaClientVersion = Undefined
    /\ platform = <<>>
    /\ next = 1
    /\ engines = [i \in Engines |-> NoEngineInfo]
    /\ resolveCalls = [i \in Engines |-> 0]
    /\ probeCalls = [i \in Engines |-> 0]
    /\ failedEngine = 0
    /\ schemaPath = <<>>
    /\ config = NotRead
    /\ featureFlags = <<>>
    /\ result = NoResult

\* One invocation of parse: any arguments, any environment. The override
\* variable of the query-engine kind that is not in use is never read and is
\* left unset.
Init ==
    /\ argv \in SUBSET ArgTokens
    /\ cliQueryEngineType \in QueryEngineTypes
    /\ env \in [EngineTypes -> EnvValues]
    /\ \A e \in QueryEngineTypes \ {cliQueryEngineType} : env[e] = Undefined
    /\ pc = "start"
    /\ rows = <<>>
    /\ Fresh

\* ----------------------------------------------------------------- parse

\* Lines 64-66: the arguments did not parse.
ParseArgsError ==
    /\ pc = "start"
    /\ Arg(argv).isError
    /\ result' = help(Arg(argv).message)
    /\ pc' = "done"
    /\ UNCHANGED <<argv, cliQueryEngineType, env, envLoaded, prismaClientVersion, platform,
                   next, engines, resolveCalls, probeCalls, failedEngine, schemaPath,
                   config, featureFlags, rows>>

\* A faulty --help that loads the env file before it returns.
ParseHelpAfterLoad ==
    /\ pc = "start"
    /\ ~Arg(argv).isError
    /\ Arg(argv).help
    /\ envLoaded' = TRUE
    /\ result' = help(<<>>)
    /\ pc' = "done"
    /\ UNCHANGED <<argv, cliQueryEngineType, env, prismaClientVersion, platform,
                   next, engines, resolveCalls, probeCalls, failedEngine, schemaPath,
                   config, featureFlags, rows>>

\* Lines 68-70: --help.
ParseHelp ==
    /\ pc = "start"
    /\ ~Arg(argv).isError
    /\ Arg(argv).help
    /\ result' = help(<<>>)
    /\ pc' = "done"
    /\ UNCHANGED <<argv, cliQueryEngineType, env, envLoaded, prismaClientVersion, platform,
                   next, engines, resolveCalls, probeCalls, failedEngine, schemaPath,
                   config, featureFlags, rows>>

\* Line 72: loadEnvFile. What a .env file adds to process.env is not drawn
\* apart: env stands for the values the override variables have once this
\* call has returned, which are the ones getEngineInfo reads.
LoadEnvFile ==
    /\ pc = "start"
    /\ ~Arg(argv).isError
    /\ ~Arg(argv).help
    /\ envLoaded' = TRUE
    /\ pc' = "clientVersion"
    /\ UNCHANGED <<argv, cliQueryEngineType, env, prismaClientVersion, platform, next,
                   engines, resolveCalls, probeCalls, failedEngine, schemaPath, config,
                   featureFlags, rows, result>>

\* Line 74: getInstalledPrismaClientVersion.
GetInstalledPrismaClientVersion ==
    /\ pc = "clientVersion"
    /\ prismaClientVersion' \in ClientVersions
    /\ pc' = "platform"
    /\ UNCHANGED <<argv, cliQueryEngineType, env, envLoaded, platform, next, engines,
                   resolveCalls, probeCalls, failedEngine, schemaPath, config,
                   featureFlags, rows, result>>

\* Lines 75-77: getPlatform, getCliQueryEngineType.
GetPlatform ==
    /\ pc = "platform"
    /\ platform' \in Platforms
    /\ pc' = "engines"
    /\ UNCHANGED <<argv, cliQueryEngineType, env, envLoaded, prismaClientVersion, next,
                   engines, resolveCalls, probeCalls, failedEngine, schemaPath, config,
                   featureFlags, rows, result>>

\* The engine kind looked up next.
NextEngineType == EngineOrder(cliQueryEngineType)[next]

\* The lookup of engine `next` returned `info`: parse goes on to the next
\* engine, or to the rows after the fourth.
Resolved(info) ==
    /\ engines' = [engines EXCEPT ![next] = info]
    /\ IF next < EngineCount
       THEN next' = next + 1 /\ pc' = "engines"
       ELSE next' = next /\ pc' = "rows"
    /\ UNCHANGED <<failedEngine, result>>

\* A faulty failure path: the error is swallowed and a placeholder reported.
RejectedSwallowed ==
    /\ failedEngine' = next
    /\ engines' = [engines EXCEPT ![next] = EngineInfo(<<"u", "n", "k", "n", "o", "w", "n">>,
        <<>>, <<>>)]
    /\ IF next < EngineCount
       THEN next' = next + 1 /\ pc' = "engines"
       ELSE next' = next /\ pc' = "rows"
    /\ UNCHANGED result

\* The lookup of engine `next` threw: the rejection leaves parse.
Rejected ==
    /\ failedEngine' = next
    /\ result' = Thrown
    /\ pc' = "done"
    /\ UNCHANGED <<engines, next>>

\* Lines 136-139: the override is used and its probe succeeds.
GetEngineInfoFromEnv ==
    /\ pc = "engines"
    /\ UseOverride(env[NextEngineType])
    /\ probeCalls' = [probeCalls EXCEPT ![next] = @ + 1]
    /\ Resolved(EngineInfo(EngineVersion, env[NextEngineType].val,
                           engineEnvVarMap(NextEngineType)))
    /\ UNCHANGED <<argv, cliQueryEngineType, env, envLoaded, prismaClientVersion, platform,
                   resolveCalls, schemaPath, config, featureFlags, rows>>

\* A faulty override path: when the probe of the override fails, fall back
\* to resolveEnginePath and probe its result.
GetEngineInfoFromEnvFallsBack ==
    /\ pc = "engines"
    /\ UseOverride(env[NextEngineType])
    /\ probeCalls' = [probeCalls EXCEPT ![next] = @ + 2]
    /\ resolveCalls' = [resolveCalls EXCEPT ![next] = @ + 1]
    /\ Resolved(EngineInfo(EngineVersion, DefaultEnginePath(NextEngineType), <<>>))
    /\ UNCHANGED <<argv, cliQueryEngineType, env, envLoaded, prismaClientVersion, platform,
                   schemaPath, config, featureFlags, rows>>

\* Line 137: the override is used and getVersion throws.
GetEngineInfoFromEnvProbeFails ==
    /\ pc = "engines"
    /\ UseOverride(env[NextEngineType])
    /\ probeCalls' = [probeCalls EXCEPT ![next] = @ + 1]
    /\ Rejected
    /\ UNCHANGED <<argv, cliQueryEngineType, env, envLoaded, prismaClientVersion, platform,
                   resolveCalls, schemaPath, config, featureFlags, rows>>

\* Lines 141-143: no usable override; resolveEnginePath and the probe succeed.
GetEngineInfoDefault ==
    /\ pc = "engines"
    /\ ~UseOverride(env[NextEngineType])
    /\ resolveCalls' = [resolveCalls EXCEPT ![next] = @ + 1]
    /\ probeCalls' = [probeCalls EXCEPT ![next] = @ + 1]
    /\ Resolved(EngineInfo(EngineVersion, DefaultEnginePath(NextEngineType), <<>>))
    /\ UNCHANGED <<argv, cliQueryEngineType, env, envLoaded, prismaClientVersion, platform,
                   schemaPath, config, featureFlags, rows>>

\* Line 141: resolveEnginePath throws.
GetEngineInfoResolveFails ==
    /\ pc = "engines"
    /\ ~UseOverride(env[NextEngineType])
    /\ resolveCalls' = [resolveCalls EXCEPT ![next] = @ + 1]
    /\ Rejected
    /\ UNCHANGED <<argv, cliQueryEngineType, env, envLoaded, prismaClientVersion, platform,
                   probeCalls, schemaPath, config, featureFlags, rows>>

\* Line 142: getVersion of the resolved path throws.
GetEngineInfoDefaultProbeFails ==
    /\ pc = "engines"
    /\ ~UseOverride(env[NextEngineType])
    /\ resolveCalls' = [resolveCalls EXCEPT ![next] = @ + 1]
    /\ probeCalls' = [probeCalls EXCEPT ![next] = @ + 1]
    /\ Rejected
    /\ UNCHANGED <<argv, cliQueryEngineType, env, envLoaded, prismaClientVersion, platform,
                   schemaPath, config, featureFlags, rows>>

\* Lines 83-96: the rows are built from the four resolved engines.
BuildRows ==
    /\ pc = "rows"
    /\ rows' = VersionInfoRows(cliQueryEngineType, prismaClientVersion, platform, engines)
    /\ pc' = "schemaPath"
    /\ UNCHANGED <<argv, cliQueryEngineType, env, envLoaded, prismaClientVersion, platform,
                   next, engines, resolveCalls, probeCalls, failedEngine, schemaPath,
                   config, featureFlags, result>>

\* Line 98: getSchemaPath.
GetSchemaPath ==
    /\ pc = "schemaPath"
    /\ schemaPath' \in SchemaPaths
    /\ pc' = "featureFlags"
    /\ UNCHANGED <<argv, cliQueryEngineType, env, envLoaded, prismaClientVersion, platform,
                   next, engines, resolveCalls, probeCalls, failedEngine, config,
                   featureFlags, rows, result>>

\* Lines 109-111: no schema path.
GetFeatureFlagsNoSchema ==
    /\ pc = "featureFlags"
    /\ schemaPath = <<>>
    /\ featureFlags' = <<>>
    /\ pc' = "print"
    /\ UNCHANGED <<argv, cliQueryEngineType, env, envLoaded, prismaClientVersion, platform,
                   next, engines, resolveCalls, probeCalls, failedEngine, schemaPath,
                   config, rows, result>>

\* Lines 113-121, 125: the schema is read and its config parsed.
GetFeatureFlagsFromConfig ==
    /\ pc = "featureFlags"
    /\ schemaPath # <<>>
    /\ \E generators \in GeneratorLists :
          /\ config' = ReadConfig(generators)
          /\ featureFlags' = FindGenerator(generators)
    /\ pc' = "print"
    /\ UNCHANGED <<argv, cliQueryEngineType, env, envLoaded, prismaClientVersion, platform,
                   next, engines, resolveCalls, probeCalls, failedEngine, schemaPath,
                   rows, result>>

\* A faulty error path: the schema error leaves getFeatureFlags and parse.
GetFeatureFlagsRethrows ==
    /\ pc = "featureFlags"
    /\ schemaPath # <<>>
    /\ config' = ReadFailed
    /\ result' = Thrown
    /\ pc' = "done"
    /\ UNCHANGED <<argv, cliQueryEngineType, env, envLoaded, prismaClientVersion, platform,
                   next, engines, resolveCalls, probeCalls, failedEngine, schemaPath,
                   featureFlags, rows>>

\* Lines 113-125: getSchema or getConfig throws; the catch block swallows it.
GetFeatureFlagsCaught ==
    /\ pc = "featureFlags"
    /\ schemaPath # <<>>
    /\ config' = ReadFailed
    /\ featureFlags' = <<>>
    /\ pc' = "print"
    /\ UNCHANGED <<argv, cliQueryEngineType, env, envLoaded, prismaClientVersion, platform,
                   next, engines, resolveCalls, probeCalls, failedEngine, schemaPath,
                   rows, result>>

\* Lines 101-105: the optional Preview Features row, then printTable.
PrintReport ==
    /\ pc = "print"
    /\ rows' = WithPreviewFeatures(rows, featureFlags)
    /\ result' = printTable(rows', Arg(argv).json)
    /\ pc' = "done"
    /\ UNCHANGED <<argv, cliQueryEngineType, env, envLoaded, prismaClientVersion, platform,
                   next, engines, resolveCalls, probeCalls, failedEngine, schemaPath,
                   config, featureFlags>>

Next ==
    \/ ParseArgsError
    \/ ParseHelp
    \/ LoadEnvFile
    \/ GetInstalledPrismaClientVersion
    \/ GetPlatform
    \/ GetEngineInfoFromEnv
    \/ GetEngineInfoFromEnvProbeFails
    \/ GetEngineInfoDefault
    \/ GetEngineInfoResolveFails
    \/ GetEngineInfoDefaultProbeFails
    \/ BuildRows
    \/ GetSchemaPath
    \/ GetFeatureFlagsNoSchema
    \/ GetFeatureFlagsFromConfig
    \/ GetFeatureFlagsCaught
    \/ PrintReport

Spec == Init /\ [][Next]_vars

\* ------------------------------------------------- printTable on its own

\* Labels for printTable: the documented examples, labels with whitespace
\* runs and capitals, and two labels with the same slug.
TableLabels ==
    {<<"A">>, <<"B", "B">>, <<"a", " ", "B">>, <<"A", " ", "\t", " ", "b">>, <<"Q", "u", "e",
        "r", "y", " ", "E", "n", "g", "i", "n", "e", " ", "(", "N", "o", "d", "e", "-", "A",
        "P", "I", ")">>}

TableValues == {<<"1">>, <<"2", "2">>}

\* Row lists whose labels give pairwise different keys: parse builds its rows
\* from fixed, distinct labels.
TableRows ==
    {r \in UNION {[1..n -> TableLabels \X TableValues] : n \in 1..MaxRows} :
        \A i, j \in DOMAIN r : i # j => slugify(r[i][1]) # slugify(r[j][1])}

\* printTable called with any short list of rows, in either mode.
InitTable ==
    /\ argv \in {{}, {"--json"}}
    /\ rows \in TableRows
    /\ cliQueryEngineType = "libqueryEngine"
    /\ env = [e \in EngineTypes |-> Undefined]
    /\ pc = "table"
    /\ Fresh

\* Lines 147-153: printTable in JSON mode.
PrintTableJson ==
    /\ pc = "table"
    /\ Arg(argv).json
    /\ result' = printTable(rows, TRUE)
    /\ pc' = "done"
    /\ UNCHANGED <<argv, cliQueryEngineType, env, envLoaded, prismaClientVersion, platform,
                   next, engines, resolveCalls, probeCalls, failedEngine, schemaPath,
                   config, featureFlags, rows>>

\* Lines 154-155: printTable in text mode.
PrintTableText ==
    /\ pc = "table"
    /\ ~Arg(argv).json
    /\ result' = printTable(rows, FALSE)
    /\ pc' = "done"
    /\ UNCHANGED <<argv, cliQueryEngineType, env, envLoaded, prismaClientVersion, platform,
                   next, engines, resolveCalls, probeCalls, failedEngine, schemaPath,
                   config, featureFlags, rows>>

NextTable == PrintTableJson \/ PrintTableText

SpecTable == InitTable /\ [][NextTable]_vars

\* ------------------------------------------------------------ properties

Done == pc = "done"

IsReport == result.kind \in {"text", "json"}

HelpRequested == "--help" \in argv \/ "-h" \in argv

\* Nothing beyond argument parsing has happened.
NothingTouched ==
    /\ ~envLoaded
    /\ \A i \in Engines : resolveCalls[i] = 0 /\ probeCalls[i] = 0 /\ ~engines[i].resolved
    /\ ~config.read
    /\ schemaPath = <<>>
    /\ rows = <<>>

\* The index of the engine looked up for row i's kind.
KindOf(i) == EngineOrder(cliQueryEngineType)[i]

\* The override variable of engine i names an existing file.
OverrideUsable(i) ==
    env[KindOf(i)].set /\ env[KindOf(i)].val # <<>> /\ env[KindOf(i)].val \in Disk

\* C1: every resolved engine has the path of its override variable and that
\* variable's name as fromEnvVar exactly when the variable is set, non-empty
\* and names an existing file; otherwise it has resolveEnginePath's path and
\* no fromEnvVar.
C1_OverrideOrDefault ==
    \A i \in Engines :
        engines[i].resolved =>
            IF OverrideUsable(i)
            THEN /\ engines[i].path = env[KindOf(i)].val
                 /\ engines[i].fromEnvVar = engineEnvVarMap(KindOf(i))
            ELSE /\ engines[i].path = DefaultEnginePath(KindOf(i))
                 /\ engines[i].fromEnvVar = <<>>

\* All four engines resolved: one through its override, one with the variable
\* unset, one with it empty, one with it naming a missing file.
C1_Witness ==
    /\ \A i \in Engines : engines[i].resolved
    /\ \E a, b, c, d \in Engines :
          /\ env[KindOf(a)] = Defined(ExistingPath)
          /\ env[KindOf(b)] = Undefined
          /\ env[KindOf(c)] = Defined(<<>>)
          /\ env[KindOf(d)] = Defined(MissingPath)

\* C2: once the lookup of any engine has failed, parse has ended with the
\* error and neither rows nor a rendered report exist.
C2_NoPartialReport ==
    failedEngine # 0 =>
        /\ Done
        /\ result = Thrown
        /\ rows = <<>>

\* The third engine failed after the first two had been resolved.
C2_Witness ==
    /\ failedEngine = 3
    /\ engines[1].resolved
    /\ engines[2].resolved
    /\ Done

\* The report of the same run had no schema been found.
ReportWithoutSchema ==
    printTable(VersionInfoRows(cliQueryEngineType, prismaClientVersion, platform, engines),
               "--json" \in argv)

\* C3: when the schema is found but reading or parsing it fails,
\* getFeatureFlags returns the empty list and parse ends with the report it
\* gives when no schema is found; the error never leaves parse.
C3_SchemaErrorSwallowed ==
    /\ config.failed =>
        /\ featureFlags = <<>>
        /\ result.kind # "thrown"
        /\ Done => IsReport /\ result = ReportWithoutSchema
    /\ (Done /\ IsReport /\ schemaPath = <<>>) => result = ReportWithoutSchema

\* A finished text report of a run whose schema failed to parse.
C3_Witness ==
    /\ Done
    /\ schemaPath # <<>>
    /\ config.failed
    /\ result.kind = "text"

PreviewLabel == <<"P", "r", "e", "v", "i", "e", "w", " ", "F", "e", "a", "t", "u", "r", "e", "s">>

HasPreviewRow == \E i \in DOMAIN rows : rows[i][1] = PreviewLabel

\* The generators of the parsed config that declare preview features.
Declaring == {g \in DOMAIN config.generators : Len(config.generators[g]) > 0}

\* C4: a finished report has a Preview Features row exactly when a schema was
\* found and some generator of its config declares preview features; the row
\* is then the last one, and its value is the list of the first such
\* generator joined by ", ".
C4_PreviewFeaturesRow ==
    (Done /\ IsReport) =>
        /\ HasPreviewRow <=> (schemaPath # <<>> /\ Declaring # {})
        /\ schemaPath = <<>> => ~HasPreviewRow
        /\ HasPreviewRow =>
              LET first == CHOOSE g \in Declaring : \A h \in Declaring : g <= h
                  flags == config.generators[first]
              IN  /\ \A i \in DOMAIN rows : rows[i][1] = PreviewLabel <=> i = Len(rows)
                  /\ rows[Len(rows)][2] = Join(flags, <<",", " ">>)
                  /\ flags = <<<<"a">>, <<"b">>>> => rows[Len(rows)][2] = <<"a", ",", " ", "b">>
        /\ LET last == rows[Len(rows)]
               line == <<"\n">> \o PadEnd(last[1], Len(rows[4][1])) \o <<" ", ":", " ">> \o last[2]
           IN  IF result.kind = "json"
               THEN HasPreviewRow <=>
                        <<<<"p", "r", "e", "v", "i", "e", "w", "-", "f", "e", "a", "t", "u",
                            "r", "e", "s">>, last[2]>> \in result.obj
               ELSE /\ Len(result.text) > Len(line)
                    /\ SubSeq(result.text, Len(result.text) - Len(line) + 1,
                              Len(result.text)) = line

\* A finished report whose first declaring generator lists a and b and whose
\* second lists something else.
C4_Witness ==
    /\ Done
    /\ IsReport
    /\ config.generators = << <<<<"a">>, <<"b">>>>, <<<<"b">>>> >>
    /\ HasPreviewRow

\* C5 as stated: with --help or -h among the arguments parse returns the help
\* text, whatever else is given.
C5_Original ==
    (Done /\ HelpRequested) => result = Returned("help", HelpText, {})

\* C5, amended: with --help or -h among the arguments nothing is loaded,
\* resolved, probed or read and no report is returned; parse returns the help
\* text when the arguments parse, and the HelpError when they do not.
C5_HelpShortCircuits ==
    HelpRequested =>
        /\ NothingTouched
        /\ Done =>
              IF "--bogus" \in argv
              THEN result.kind = "helpError"
              ELSE result = Returned("help", HelpText, {})

\* --help given together with --json: the help text was returned.
C5_Witness ==
    /\ Done
    /\ "--help" \in argv
    /\ "--json" \in argv
    /\ result.kind = "help"

\* Key k is label s lower-cased with each maximal whitespace run replaced by
\* one hyphen, stated by positions: the first character of every run and
\* every other character are kept, in order.
IsSlugOf(k, s) ==
    LET kept == {i \in DOMAIN s : s[i] \notin Whitespace \/ i = 1 \/ s[i - 1] \notin Whitespace}
        at(j) == CHOOSE i \in kept : Cardinality({m \in kept : m <= i}) = j
    IN  /\ Len(k) = Cardinality(kept)
        /\ \A j \in DOMAIN k :
              IF s[at(j)] \in Whitespace THEN k[j] = "-"
              ELSE \/ k[j] = s[at(j)] /\ k[j] \notin ToRange(UpperCaseLetters)
                   \/ \E n \in DOMAIN UpperCaseLetters :
                         s[at(j)] = UpperCaseLetters[n] /\ k[j] = LowerCaseLetters[n]

\* C6: in JSON mode the object has, for every row, the key that is the row's
\* label lower-cased with whitespace runs turned into single hyphens, holding
\* the row's value, and no other key; no key has a capital or a whitespace
\* character.
C6_JsonKeys ==
    (Done /\ result.kind = "json") =>
        /\ \A i \in DOMAIN rows :
              \E p \in result.obj : IsSlugOf(p[1], rows[i][1]) /\ p[2] = rows[i][2]
        /\ \A p \in result.obj :
              /\ \E i \in DOMAIN rows : IsSlugOf(p[1], rows[i][1]) /\ p[2] = rows[i][2]
              /\ ToRange(p[1]) \cap (Whitespace \cup ToRange(UpperCaseLetters)) = {}
        /\ \A p, q \in result.obj : p[1] = q[1] => p = q
        /\ \A i \in DOMAIN rows :
              rows[i][1] = <<"Q", "u", "e", "r", "y", " ", "E", "n", "g", "i", "n", "e", " ",
                  "(", "N", "o", "d", "e", "-", "A", "P", "I", ")">> =>
                  <<<<"q", "u", "e", "r", "y", "-", "e", "n", "g", "i", "n", "e", "-", "(", "n",
                      "o", "d", "e", "-", "a", "p", "i", ")">>, rows[i][2]>> \in result.obj

\* A JSON result for rows that hold the documented label and a label with a
\* run of several whitespace characters.
C6_Witness ==
    /\ Done
    /\ result.kind = "json"
    /\ \E i, j \in DOMAIN rows :
          /\ rows[i][1] = <<"Q", "u", "e", "r", "y", " ", "E", "n", "g", "i", "n", "e", " ",
              "(", "N", "o", "d", "e", "-", "A", "P", "I", ")">>
          /\ rows[j][1] = <<"A", " ", "\t", " ", "b">>

RECURSIVE SplitLines(_)
\* text.split('\n')
SplitLines(text) ==
    IF \E i \in DOMAIN text : text[i] = "\n"
    THEN LET cut == CHOOSE i \in DOMAIN text :
                        text[i] = "\n" /\ \A j \in 1..(i - 1) : text[j] # "\n"
         IN  <<SubSeq(text, 1, cut - 1)>> \o SplitLines(SubSeq(text, cut + 1, Len(text)))
    ELSE <<text>>

\* The length of the longest label.
Widest ==
    CHOOSE w \in {Len(rows[i][1]) : i \in DOMAIN rows} :
        \A i \in DOMAIN rows : Len(rows[i][1]) <= w

\* C7: in text mode there is one line per row, in row order; each line is the
\* label, spaces up to the longest label's length, " : " and the value, so
\* the separator starts at the same column on every line.
C7_TextTable ==
    (Done /\ result.kind = "text") =>
        LET lines == SplitLines(result.text)
        IN  /\ Len(lines) = Len(rows)
            /\ \A i \in DOMAIN rows :
                  LET label == rows[i][1]
                      value == rows[i][2]
                      line == lines[i]
                  IN  /\ Len(line) = Widest + 3 + Len(value)
                      /\ SubSeq(line, 1, Len(label)) = label
                      /\ \A p \in (Len(label) + 1)..Widest : line[p] = " "
                      /\ SubSeq(line, Widest + 1, Widest + 3) = <<" ", ":", " ">>
                      /\ SubSeq(line, Widest + 4, Len(line)) = value
            /\ rows = << <<<<"A">>, <<"1">>>>, <<<<"B", "B">>, <<"2", "2">>>> >> =>
                  result.text = <<"A", " ", " ", ":", " ", "1", "\n", "B", "B", " ", ":", " ",
                      "2", "2">>

\* The documented example, rendered.
C7_Witness ==
    /\ Done
    /\ result.kind = "text"
    /\ rows = << <<<<"A">>, <<"1">>>>, <<<<"B", "B">>, <<"2", "2">>>> >>

\* `part` occurs in `text`.
Contains(text, part) ==
    \E i \in 1..(Len(text) - Len(part) + 1) : SubSeq(text, i, i + Len(part) - 1) = part

\* C8: when the arguments do not parse, parse returns a HelpError that carries
\* the error message and the help text, and nothing is loaded, resolved,
\* probed or read.
C8_ArgumentError ==
    "--bogus" \in argv =>
        /\ NothingTouched
        /\ Done =>
              /\ result.kind = "helpError"
              /\ Contains(result.text, ArgErrorMessage)
              /\ Contains(result.text, HelpText)

\* An undeclared option given together with --json: the HelpError was returned.
C8_Witness ==
    /\ Done
    /\ "--bogus" \in argv
    /\ "--json" \in argv
    /\ result.kind = "helpError"

\* The labels of a report, in their fixed order, without the optional last one.
FixedLabels(queryLabel) ==
    <<<<"p", "r", "i", "s", "m", "a">>, <<"@", "p", "r", "i", "s", "m", "a", "/", "c", "l", "i",
        "e", "n", "t">>, <<"C", "u", "r", "r", "e", "n", "t", " ", "p", "l", "a", "t", "f", "o",
        "r", "m">>, queryLabel,
      <<"M", "i", "g", "r", "a", "t", "i", "o", "n", " ", "E", "n", "g", "i", "n", "e">>, <<"I",
          "n", "t", "r", "o", "s", "p", "e", "c", "t", "i", "o", "n", " ", "E", "n", "g", "i",
          "n", "e">>, <<"F", "o", "r", "m", "a", "t", " ", "E", "n", "g", "i", "n", "e">>,
          <<"S", "t", "u", "d", "i", "o">>,
      <<"D", "e", "f", "a", "u", "l", "t", " ", "E", "n", "g", "i", "n", "e", "s", " ", "H",
          "a", "s", "h">>>>

\* C9: rows exist only once all four engine lookups have resolved, and a
\* report's rows are in the fixed order, each engine row showing its own
\* engine, with Preview Features last when present.
C9_FixedRowOrder ==
    /\ rows # <<>> => (failedEngine = 0 /\ \A i \in Engines : engines[i].resolved)
    /\ (Done /\ IsReport) =>
          LET labels == [i \in DOMAIN rows |-> rows[i][1]]
              fixed == FixedLabels(IF cliQueryEngineType = "libqueryEngine"
                                   THEN <<"Q", "u", "e", "r", "y", " ", "E", "n", "g", "i", "n",
                                       "e", " ", "(", "N", "o", "d", "e", "-", "A", "P", "I",
                                       ")">>
                                   ELSE <<"Q", "u", "e", "r", "y", " ", "E", "n", "g", "i", "n",
                                       "e", " ", "(", "B", "i", "n", "a", "r", "y", ")">>)
          IN  /\ labels \in {fixed, Append(fixed, PreviewLabel)}
              /\ \A i \in Engines :
                    /\ Contains(rows[3 + i][2], Relative(Cwd, engines[i].path))
                    /\ Contains(rows[3 + i][2], Relative(Cwd, DefaultEnginePath(KindOf(i))))
                          <=> ~OverrideUsable(i)

\* A finished report of ten rows in which the engines were resolved in
\* different ways.
C9_Witness ==
    /\ Done
    /\ IsReport
    /\ Len(rows) = 10
    /\ OverrideUsable(2)
    /\ ~OverrideUsable(3)

\* C10: each engine is resolved through resolveEnginePath at most once and
\* probed at most once; an engine whose override names an existing file is
\* never resolved through resolveEnginePath, also when its probe fails; and
\* after a failure no further lookup is made.
C10_NoRetryNoFallback ==
    /\ \A i \in Engines :
          /\ resolveCalls[i] <= 1
          /\ probeCalls[i] <= 1
          /\ OverrideUsable(i) => resolveCalls[i] = 0
    /\ failedEngine # 0 =>
          /\ Done
          /\ \A i \in Engines :
                i > failedEngine => resolveCalls[i] = 0 /\ probeCalls[i] = 0

\* The probe of an existing override file failed: one probe, no resolution.
C10_Witness ==
    /\ failedEngine = 2
    /\ OverrideUsable(2)
    /\ probeCalls[2] = 1
    /\ resolveCalls[2] = 0
====
